---- MODULE Spec2Model ----
(***************************************************************************)
(* Session manager module (srml/session/src/lib.rs) over the hashed        *)
(* storage generators (srml/support/src/storage/hashed/generator.rs).      *)
(*                                                                         *)
(* Option<T> is modelled as a sequence: <<>> is None, <<x>> is Some(x).    *)
(* BlockNumber is u64: a subtraction that goes below zero either panics    *)
(* (overflow checks on) or wraps modulo 2^64 (overflow checks off).        *)
(***************************************************************************)
EXTENDS Integers, Sequences, FiniteSets, TLC

\* ------------------------------------------------------------------ bounds
\* Largest block number the system reaches and the checks are called with.
MaxBlock == 4
\* Largest session length that is scheduled with set_length.
MaxLen == 3
\* Largest session index: no rotation starts once CurrentIndex reaches it.
MaxIndex == 2
\* Largest key of the storage map.
MaxMapKey == 2

\* --------------------------------------------------------------- constants
\* GenesisConfig.session_length of the test externalities.
GenesisSessionLength == 2
\* SessionKey::default(), UintAuthorityId(0).
DefaultKey == 0
\* Width of BlockNumber (u64) in bits.
BlockNumberBits == 64
\* system::Module::block_number() of the genesis state.
GenesisBlockNumber == 1
\* timestamp GenesisConfig.minimum_period of the test externalities.
MinimumPeriod == 5

None == <<>>
Some(x) == <<x>>
IsSome(o) == o # <<>>
Unwrap(o) == o[1]

\* AccountId values.
Accounts == {1, 2}
\* Session keys that set_key is called with; 1 is also the key derived from
\* account 1.
Keys == {1, 5}
\* Accounts for which ConvertAccountIdToSessionKey::convert yields None.
Unconvertible == {2}
\* The validator lists a session-change hook installs with set_validators.
ValidatorLists == {<<1, 2>>, <<2>>}
GenesisValidators == <<1, 2>>

\* Inputs of the scheduling runs (Spec): any block, any length.
BlockNumbers == 0..MaxBlock
Lengths == 0..MaxLen
\* Inputs of the key runs (SpecKeys): the block number stays at its genesis
\* value and the checks are called with 1 and 2, as in
\* authorities_should_track_validators.
KeyRunBlocks == {1, 2}
KeyRunLengths == {1}
\* Inputs of the storage runs (SpecStorage): the keys the adapter is called
\* with, one of them the key of a map entry, the keys of the map, and the
\* values that are stored.
StorageKeys == {<<1>>, <<77, 1, 0>>}
MapKeys == 1..MaxMapKey
Values == {1, 300}

VARIABLES
    validators,           \* Validators: Vec<AccountId>
    session_length,       \* SessionLength: BlockNumber
    current_index,        \* CurrentIndex: BlockNumber
    current_start,        \* CurrentStart: Moment
    forcing_new_session,  \* ForcingNewSession: Option<bool>
    last_length_change,   \* LastLengthChange: Option<BlockNumber>
    next_key_for,         \* NextKeyFor: map AccountId => Option<SessionKey>
    next_session_length,  \* NextSessionLength: Option<BlockNumber>
    authorities,          \* consensus authority registry, by index
    block_number,         \* system::Module::block_number()
    last,                 \* history: the last call, what it did and found
    order,                \* history: blocks checked in order since the session began
    purged,               \* history: accounts whose pending key was reaped
    rotations,            \* history: the number of calls of rotate_session
    storage               \* StorageOverlay under a HashedStorage adapter

vars == <<validators, session_length, current_index, current_start,
          forcing_new_session, last_length_change, next_key_for,
          next_session_length, authorities, block_number, last, order, purged,
          rotations, storage>>

\* The persisted entities of the session module.
session == <<validators, session_length, current_index, current_start,
             forcing_new_session, last_length_change, next_key_for,
             next_session_length>>

\* ----------------------------------------------------------- environment
\* timestamp::Module::get(): the timestamp set in the current block; blocks
\* are one minimum period apart.
now == block_number * MinimumPeriod

\* T::ConvertAccountIdToSessionKey::convert
ConvertAccountIdToSessionKey(v) ==
    IF v \in Unconvertible THEN None ELSE Some(v)

\* consensus::Module::set_authority_count: indices at and above the count are
\* cleared, new indices read as the default key until they are set.
set_authority_count(auth, count) ==
    [i \in 1..count |-> IF i <= Len(auth) THEN auth[i] ELSE DefaultKey]

\* consensus::Module::set_authority(index, key), index counted from 0.
set_authority(auth, index, key) ==
    [auth EXCEPT ![index + 1] = key]

\* ---------------------------------------------------------------- helpers
RECURSIVE PowMod(_, _, _)
PowMod(base, exp, m) ==
    IF exp = 0 THEN 1 % m ELSE (base * PowMod(base, exp - 1, m)) % m

\* (a - b) % m for u64 a < b with overflow checks off: the difference wraps
\* to 2^64 - (b - a) before the remainder is taken.
WrappedSubRem(a, b, m) ==
    (PowMod(2, BlockNumberBits, m) + m - ((b - a) % m)) % m

\* last_length_change(): the last length change if there was one, zero if not.
last_length_change_or_zero ==
    IF IsSome(last_length_change) THEN Unwrap(last_length_change) ELSE 0

\* validator_count()
validator_count == Len(validators)

\* The key rotate_session resolves for validator v.
ResolveKey_IgnoresPending(v) ==
    IF IsSome(ConvertAccountIdToSessionKey(v))
    THEN Unwrap(ConvertAccountIdToSessionKey(v))
    ELSE DefaultKey

ResolveKey(v) ==
    IF IsSome(next_key_for[v]) THEN Unwrap(next_key_for[v])
    ELSE IF IsSome(ConvertAccountIdToSessionKey(v))
         THEN Unwrap(ConvertAccountIdToSessionKey(v))
         ELSE DefaultKey

\* The loop of rotate_session over the validators from index i on.
RECURSIVE SetAuthorities(_, _, _)
SetAuthorities_StopsWithoutKey(auth, v, i) ==
    IF i >= Len(v) THEN auth
    ELSE IF next_key_for[v[i + 1]] = None /\ v[i + 1] \in Unconvertible THEN auth
    ELSE SetAuthorities(set_authority(auth, i, ResolveKey(v[i + 1])), v, i + 1)

SetAuthorities(auth, v, i) ==
    IF i >= Len(v) THEN auth
    ELSE SetAuthorities(set_authority(auth, i, ResolveKey(v[i + 1])), v, i + 1)

\* ------------------------------------------------- hashed storage adapter
\* Byte strings are sequences of bytes; a digest is modelled as the pair of
\* the function's name and its input, so that different inputs, and the two
\* functions, never collide.
blake2_128(x) == <<"blake2_128", x>>
twox_128(x) == <<"twox_128", x>>

\* The two StorageHasher implementations.
Hashers == {"Blake2", "Twox"}

\* <H as StorageHasher>::hash(x)
hash(H, x) == IF H = "Blake2" THEN blake2_128(x) ELSE twox_128(x)

\* codec: a u16 value is encoded as its two little-endian bytes.
Encode(val) == <<val % 256, val \div 256>>
Decode(bytes) == bytes[1] + 256 * bytes[2]

\* A StorageOverlay maps the raw keys that are present to their bytes.
EmptyOverlay == [raw \in {} |-> <<>>]

\* UnhashedStorage over the overlay s, by raw key.
Unhashed_exists(s, raw) == raw \in DOMAIN s
Unhashed_get(s, raw) == IF raw \in DOMAIN s THEN Some(Decode(s[raw])) ELSE None
Unhashed_put(s, raw, val) ==
    [x \in DOMAIN s \cup {raw} |-> IF x = raw THEN Encode(val) ELSE s[x]]
Unhashed_kill(s, raw) == [x \in DOMAIN s \ {raw} |-> s[x]]

\* impl<H: StorageHasher> HashedStorage<H> for RefCell<&mut StorageOverlay>
exists_OtherHasher(s, H, key) == Unhashed_exists(s, twox_128(key))

exists(s, H, key) == Unhashed_exists(s, hash(H, key))

get(s, H, key) == Unhashed_get(s, hash(H, key))

put(s, H, key, val) == Unhashed_put(s, hash(H, key), val)

kill(s, H, key) == Unhashed_kill(s, hash(H, key))

\* HashedStorage::take: the value read and the overlay it leaves.
take_KillsFirst(s, H, key) == <<get(kill(s, H, key), H, key), kill(s, H, key)>>

take(s, H, key) ==
    LET value == get(s, H, key)
    IN  <<value, kill(s, H, key)>>

\* StorageMap: the prefix and key_for of a declared map, with
\* exists, get (the Option query), insert and remove.
prefix == <<77>>
key_for(x) == prefix \o Encode(x)

Map_exists(s, k) == exists(s, "Blake2", key_for(k))

Map_get(s, k) == get(s, "Blake2", key_for(k))

Map_insert(s, k, val) == put(s, "Blake2", key_for(k), val)

Map_remove(s, k) == kill(s, "Blake2", key_for(k))

\* What a call that is not a check records; ret is what it returned.
Call(op, arg) ==
    [op |-> op, arg |-> arg, panic |-> FALSE, final |-> FALSE, forced |-> None,
     rotated |-> FALSE, hook |-> None, since |-> <<>>, ret |-> None]

Init ==
    /\ validators = GenesisValidators
    /\ session_length = GenesisSessionLength
    /\ current_index = 0
    /\ current_start = 0
    /\ forcing_new_session = None
    /\ last_length_change = None
    /\ next_key_for = [a \in Accounts |-> None]
    /\ next_session_length = None
    /\ authorities = [i \in 1..Len(GenesisValidators) |->
                         ResolveKey_IgnoresPending(GenesisValidators[i])]
    /\ block_number = GenesisBlockNumber
    /\ last = Call("genesis", <<>>)
    /\ order = <<0, 0>>
    /\ purged = {}
    /\ rotations = 0
    /\ storage = EmptyOverlay

\* ------------------------------------------------------------- operations
\* set_key(origin, key) with origin = Signed(who)
set_key_WritesRegistry(who, key) ==
    /\ next_key_for' = [next_key_for EXCEPT ![who] = Some(key)]
    /\ authorities' = [i \in 1..Len(authorities) |->
                          IF validators[i] = who THEN key ELSE authorities[i]]
    /\ last' = Call("set_key", <<who, key>>)
    /\ purged' = purged \ {who}
    /\ UNCHANGED <<validators, session_length, current_index, current_start,
                   forcing_new_session, last_length_change,
                   next_session_length, block_number, order,
                   rotations, storage>>

set_key(who, key) ==
    /\ next_key_for' = [next_key_for EXCEPT ![who] = Some(key)]
    /\ last' = Call("set_key", <<who, key>>)
    /\ purged' = purged \ {who}
    /\ UNCHANGED <<validators, session_length, current_index, current_start,
                   forcing_new_session, last_length_change,
                   next_session_length, authorities, block_number, order,
                   rotations, storage>>

\* system::ensure_signed(origin): the account of a signed origin, None for
\* any other origin.
Origins == {<<"Signed", who>> : who \in Accounts} \cup {<<"Root">>, <<"Inherent">>}
ensure_signed(origin) ==
    IF origin[1] = "Signed" THEN Some(origin[2]) ELSE None

\* set_key(origin, key) as dispatched: Err("bad origin") leaves the call.
dispatch_set_key_WritesThenChecks(origin, key) ==
    IF IsSome(ensure_signed(origin))
    THEN set_key(Unwrap(ensure_signed(origin)), key)
    ELSE /\ next_key_for' = [a \in Accounts |-> Some(key)]
         /\ last' = Call("set_key: bad origin", <<origin, key>>)
         /\ UNCHANGED <<validators, session_length, current_index, current_start,
                        forcing_new_session, last_length_change,
                        next_session_length, authorities, block_number, order,
                        purged, rotations, storage>>

dispatch_set_key(origin, key) ==
    LET who == ensure_signed(origin)
    IN  IF IsSome(who)
        THEN set_key(Unwrap(who), key)
        ELSE /\ last' = Call("set_key: bad origin", <<origin, key>>)
             /\ UNCHANGED <<session, authorities, block_number, order, purged,
                            rotations, storage>>

\* set_length(new)
set_length_Immediate(new) ==
    /\ session_length' = new
    /\ next_session_length' = Some(new)
    /\ last' = Call("set_length", <<new>>)
    /\ UNCHANGED <<validators, current_index, current_start,
                   forcing_new_session, last_length_change, next_key_for,
                   authorities, block_number, order, purged,
                   rotations, storage>>

set_length_KeepsFirst(new) ==
    /\ next_session_length' = IF IsSome(next_session_length)
                              THEN next_session_length ELSE Some(new)
    /\ last' = Call("set_length", <<new>>)
    /\ UNCHANGED <<validators, session_length, current_index, current_start,
                   forcing_new_session, last_length_change, next_key_for,
                   authorities, block_number, order, purged,
                   rotations, storage>>

set_length(new) ==
    /\ next_session_length' = Some(new)
    /\ last' = Call("set_length", <<new>>)
    /\ UNCHANGED <<validators, session_length, current_index, current_start,
                   forcing_new_session, last_length_change, next_key_for,
                   authorities, block_number, order, purged,
                   rotations, storage>>

\* apply_force_new_session(apply_rewards)
apply_force_new_session(apply_rewards) ==
    /\ forcing_new_session' = Some(apply_rewards)
    /\ UNCHANGED <<validators, session_length, current_index, current_start,
                   last_length_change, next_key_for, next_session_length,
                   authorities, block_number, order, purged,
                   rotations, storage>>

\* force_new_session(apply_rewards)
force_new_session(apply_rewards) ==
    /\ apply_force_new_session(apply_rewards)
    /\ last' = Call("force_new_session", <<apply_rewards>>)

\* on_free_balance_zero(who)
on_free_balance_zero_KeepsKey(who) ==
    /\ last' = Call("on_free_balance_zero", <<who>>)
    /\ purged' = IF IsSome(next_key_for[who]) THEN purged \cup {who} ELSE purged
    /\ UNCHANGED <<session, authorities, block_number, order,
                   rotations, storage>>

on_free_balance_zero(who) ==
    /\ next_key_for' = [next_key_for EXCEPT ![who] = None]
    /\ last' = Call("on_free_balance_zero", <<who>>)
    /\ purged' = IF IsSome(next_key_for[who]) THEN purged \cup {who} ELSE purged
    /\ UNCHANGED <<validators, session_length, current_index, current_start,
                   forcing_new_session, last_length_change,
                   next_session_length, authorities, block_number, order,
                   rotations, storage>>

\* The new value of LastLengthChange in rotate_session.
RotatedLengthChange_OnlyOnLengthChange(len_changed, is_final_block) ==
    IF len_changed THEN Some(block_number) ELSE last_length_change

RotatedLengthChange_Always(len_changed, is_final_block) == Some(block_number)

RotatedLengthChange_NextBlock(len_changed, is_final_block) ==
    IF len_changed \/ ~is_final_block
    THEN Some(block_number + 1)
    ELSE last_length_change

RotatedLengthChange(len_changed, is_final_block) ==
    IF len_changed \/ ~is_final_block
    THEN Some(block_number)
    ELSE last_length_change

\* rotate_session(is_final_block, apply_rewards); new_validators is the
\* validator list in storage after T::OnSessionChange::on_session_change
\* (the unit hook leaves it, the hook of the tests calls set_validators).
NextSessionIndex_Unchanged == current_index

\* The session_index rotate_session stores in CurrentIndex.
NextSessionIndex == current_index + 1

\* The validators rotate_session registers keys for: Self::validators(), read
\* after the hook has run.
RegisteredValidators_BeforeHook(new_validators) == validators

RegisteredValidators(new_validators) == new_validators

rotate_session_TakesKeys(is_final_block, apply_rewards, new_validators) ==
    LET len_changed == IsSome(next_session_length)
        v == RegisteredValidators(new_validators)
    IN  /\ current_index' = NextSessionIndex
        /\ current_start' = now
        /\ session_length' = IF len_changed THEN Unwrap(next_session_length)
                             ELSE session_length
        /\ next_session_length' = None
        /\ last_length_change' = RotatedLengthChange(len_changed, is_final_block)
        /\ validators' = new_validators
        /\ authorities' = SetAuthorities(set_authority_count(authorities, Len(v)), v, 0)
        /\ next_key_for' = [a \in Accounts |->
                               IF \E i \in 1..Len(v) : v[i] = a THEN None
                               ELSE next_key_for[a]]
        /\ rotations' = rotations + 1
        /\ UNCHANGED <<block_number, storage>>

rotate_session(is_final_block, apply_rewards, new_validators) ==
    LET session_index == NextSessionIndex
        len_changed == IsSome(next_session_length)
        v == RegisteredValidators(new_validators)
    IN  /\ current_index' = session_index
        /\ current_start' = now
        /\ session_length' = IF len_changed THEN Unwrap(next_session_length)
                             ELSE session_length
        /\ next_session_length' = None
        /\ last_length_change' = RotatedLengthChange(len_changed, is_final_block)
        /\ validators' = new_validators
        /\ authorities' = SetAuthorities(set_authority_count(authorities, Len(v)), v, 0)
        /\ rotations' = rotations + 1
        /\ UNCHANGED <<next_key_for, block_number, storage>>

\* (block_number - last_length_change()) % length() of check_rotate_session:
\* the outcomes, <<>> for a panic or the remainder.
FinalBlockRem_OffByOne(n) ==
    IF session_length = 0 THEN {<<>>}
    ELSE {<<(n + 1 + MaxBlock * session_length - last_length_change_or_zero)
              % session_length>>}

FinalBlockRem(n) ==
    LET a == last_length_change_or_zero
        l == session_length
    IN  IF l = 0 THEN {<<>>}
        ELSE IF n >= a THEN {<<(n - a) % l>>}
        ELSE {<<>>, <<WrappedSubRem(n, a, l)>>}

\* The rotation decision of check_rotate_session.
ShouldEndSession_Always(is_final_block) == TRUE

ShouldEndSession(is_final_block) ==
    IF IsSome(forcing_new_session) THEN TRUE ELSE is_final_block

ApplyRewards_FinalOnly(is_final_block) == is_final_block

ApplyRewards(is_final_block) ==
    IF IsSome(forcing_new_session) THEN Unwrap(forcing_new_session)
    ELSE is_final_block

\* The history after a check of block n: <<b, k>> when the session began at
\* block b and the blocks b+1..k were then checked in order, each as the
\* current block; <<>> otherwise.
OrderAfterCheck(n, panic, rotates) ==
    IF panic \/ n # block_number THEN <<>>
    ELSE IF rotates THEN <<n, n>>
    ELSE IF order # <<>> /\ n = order[2] + 1 THEN <<order[1], n>>
    ELSE <<>>

\* check_rotate_session(block_number)
check_rotate_session(n, new_validators) ==
    \E r \in FinalBlockRem(n) :
        IF r = <<>>
        THEN \* the arithmetic panics before anything is written
             /\ last' = [op |-> "check_rotate_session", arg |-> <<n>>,
                         panic |-> TRUE, final |-> FALSE,
                         forced |-> forcing_new_session,
                         rotated |-> FALSE, hook |-> None, since |-> order,
                         ret |-> None]
             /\ order' = OrderAfterCheck(n, TRUE, FALSE)
             /\ UNCHANGED <<session, authorities, block_number, purged,
                            rotations, storage>>
        ELSE LET is_final_block == (r[1] = 0)
                 should_end_session == ShouldEndSession(is_final_block)
                 apply_rewards == ApplyRewards(is_final_block)
             IN  /\ should_end_session => current_index < MaxIndex
                 /\ forcing_new_session' = None
                 /\ IF should_end_session
                    THEN rotate_session(is_final_block, apply_rewards, new_validators)
                    ELSE UNCHANGED <<validators, session_length, current_index,
                                     current_start, last_length_change,
                                     next_key_for, next_session_length,
                                     authorities, block_number,
                                     rotations, storage>>
                 /\ last' = [op |-> "check_rotate_session", arg |-> <<n>>,
                             panic |-> FALSE, final |-> is_final_block,
                             forced |-> forcing_new_session,
                             rotated |-> should_end_session,
                             hook |-> IF should_end_session
                                      THEN Some(<<now - current_start, apply_rewards,
                                                  new_validators>>)
                                      ELSE None,
                             since |-> order, ret |-> None]
                 /\ order' = OrderAfterCheck(n, FALSE, should_end_session)
                 /\ UNCHANGED purged

\* on_finalize(n), n the number of the block that is being finalized.
on_finalize(new_validators) == check_rotate_session(block_number, new_validators)

\* System::set_block_number: the next block, or a later one, begins.
set_block_number(b) ==
    /\ b > block_number
    /\ block_number' = b
    /\ last' = Call("set_block_number", <<b>>)
    /\ UNCHANGED <<session, authorities, order, purged, rotations, storage>>

\* Calls on the storage adapter and on a map over it: the overlay after the
\* call, and what the call returned.
StorageCall(op, arg, ret, s) ==
    /\ storage' = s
    /\ last' = [Call(op, arg) EXCEPT !.ret = ret]
    /\ UNCHANGED <<session, authorities, block_number, order, purged, rotations>>

call_exists(H, key) ==
    StorageCall("exists", <<H, key>>, Some(exists(storage, H, key)), storage)

call_get(H, key) ==
    StorageCall("get", <<H, key>>, get(storage, H, key), storage)

call_put(H, key, val) ==
    StorageCall("put", <<H, key, val>>, None, put(storage, H, key, val))

call_kill(H, key) ==
    StorageCall("kill", <<H, key>>, None, kill(storage, H, key))

call_take(H, key) ==
    StorageCall("take", <<H, key>>, take(storage, H, key)[1],
                take(storage, H, key)[2])

call_Map_exists(k) ==
    StorageCall("Map::exists", <<k>>, Some(Map_exists(storage, k)), storage)

call_Map_get(k) ==
    StorageCall("Map::get", <<k>>, Map_get(storage, k), storage)

call_Map_insert(k, val) ==
    StorageCall("Map::insert", <<k, val>>, None, Map_insert(storage, k, val))

call_Map_remove(k) ==
    StorageCall("Map::remove", <<k>>, None, Map_remove(storage, k))

\* blocks_remaining(): the outcomes, <<>> for a panic or the value.
blocks_remaining ==
    LET length == session_length
        a == last_length_change_or_zero
        d == a - block_number
    IN  IF length = 0 THEN {<<>>}
        ELSE IF block_number >= a
             THEN {<<(length - 1) - ((block_number - a + (length - 1)) % length)>>}
        ELSE IF length - 1 >= d
             THEN {<<>>, <<(length - 1) - ((length - 1 - d) % length)>>}
        ELSE {<<>>, <<(length - 1) - WrappedSubRem(length - 1, d, length)>>}

\* ideal_session_duration()
ideal_session_duration == MinimumPeriod * session_length

\* Scheduling runs: a runtime with the unit session-change hook, whose blocks
\* only advance, and the calls that read or write the schedule, with any
\* block and length.
Next ==
    \/ \E new \in Lengths : set_length(new)
    \/ \E apply_rewards \in BOOLEAN : force_new_session(apply_rewards)
    \/ on_finalize(validators)
    \/ \E n \in BlockNumbers : check_rotate_session(n, validators)
    \/ \E b \in BlockNumbers : set_block_number(b)

Spec == Init /\ [][Next]_vars

\* Key runs: a runtime whose session-change hook installs a validator list,
\* any account registering any key, at the genesis block number.
NextKeys ==
    \/ \E origin \in Origins, key \in Keys : dispatch_set_key(origin, key)
    \/ \E new \in KeyRunLengths : set_length(new)
    \/ \E apply_rewards \in BOOLEAN : force_new_session(apply_rewards)
    \/ \E who \in Accounts : on_free_balance_zero(who)
    \/ \E v \in ValidatorLists : on_finalize(v)
    \/ \E n \in KeyRunBlocks, v \in ValidatorLists : check_rotate_session(n, v)

SpecKeys == Init /\ [][NextKeys]_vars

\* Storage runs: any call on the adapter with either hasher, and on a map
\* over it, from an empty overlay.
NextStorage ==
    \/ \E H \in Hashers, key \in StorageKeys : call_exists(H, key)
    \/ \E H \in Hashers, key \in StorageKeys : call_get(H, key)
    \/ \E H \in Hashers, key \in StorageKeys, val \in Values : call_put(H, key, val)
    \/ \E H \in Hashers, key \in StorageKeys : call_kill(H, key)
    \/ \E H \in Hashers, key \in StorageKeys : call_take(H, key)
    \/ \E k \in MapKeys : call_Map_exists(k)
    \/ \E k \in MapKeys : call_Map_get(k)
    \/ \E k \in MapKeys, val \in Values : call_Map_insert(k, val)
    \/ \E k \in MapKeys : call_Map_remove(k)

SpecStorage == Init /\ [][NextStorage]_vars

\* ------------------------------------------------------------------ claims
IsCheck(l) == l.op = "check_rotate_session"

\* The remainder of x by m > 0 over the integers, never negative.
MathMod(x, m) == ((x % m) + m) % m

C2_SessionLengthPositive == session_length > 0

C4_Original ==
    (IsCheck(last) /\ IsSome(last.forced) /\ last.rotated /\ ~last.final)
        => last_length_change = Some(last.arg[1])

\* C4 amended: it leaves LastLengthChange = System::block_number(), which is
\* n when the check is called with the current block, as on_finalize does.
C4_Amended ==
    (IsCheck(last) /\ IsSome(last.forced) /\ last.rotated /\ ~last.final)
        => /\ last_length_change = Some(block_number)
           /\ last.arg[1] = block_number => last_length_change = Some(last.arg[1])

\* A forced rotation off the boundary, by the check of the current block.
C4_Witness ==
    /\ IsCheck(last) /\ IsSome(last.forced) /\ last.rotated /\ ~last.final
    /\ last.arg[1] = block_number
    /\ block_number > GenesisBlockNumber

\* C5: a check that finds a force pending rotates, whatever n is, and the
\* reward hook receives the forced flag.
C5_ForcedCheckRotates ==
    (IsCheck(last) /\ IsSome(last.forced))
        => /\ last.rotated
           /\ IsSome(last.hook)
           /\ Unwrap(last.hook)[2] = Unwrap(last.forced)

\* C6: set_length(new) writes NextSessionLength only; SessionLength changes
\* only in a rotation, to the pending value; the boundary of the running
\* session is computed with the old SessionLength.
C6_LengthChangeDeferred ==
    [][/\ last'.op = "set_length"
            => /\ next_session_length' = Some(last'.arg[1])
               /\ UNCHANGED <<validators, session_length, current_index,
                              current_start, forcing_new_session,
                              last_length_change, next_key_for, authorities>>
       /\ session_length' # session_length => (IsCheck(last') /\ last'.rotated)
       /\ (IsCheck(last') /\ last'.rotated)
            => session_length' = IF IsSome(next_session_length)
                                 THEN Unwrap(next_session_length)
                                 ELSE session_length
       /\ (/\ IsCheck(last') /\ ~last'.panic
           /\ IsSome(next_session_length)
           /\ forcing_new_session = None
           /\ last'.arg[1] >= last_length_change_or_zero)
            => (last'.rotated
                  <=> (last'.arg[1] - last_length_change_or_zero)
                         % session_length = 0)]_vars

\* Length 3 was scheduled in the session of length 2 and the rotation at
\* block 2, the boundary of the old length, has enacted it.
C6_Witness ==
    /\ IsCheck(last) /\ last.arg = <<2>> /\ last.rotated /\ last.final
    /\ last.forced = None
    /\ session_length = 3 /\ next_session_length = None
    /\ last_length_change = Some(2) /\ current_index = 1

\* The key rotate_session is to give a validator: the pending key, else the
\* converted account, else the default key.
ExpectedKey(v) ==
    IF next_key_for[v] # None THEN next_key_for[v][1]
    ELSE IF v \in Unconvertible THEN DefaultKey
    ELSE v

FallbackKey(v) == IF v \in Unconvertible THEN DefaultKey ELSE v

\* C7: set_key(who, key) sets NextKeyFor[who] = key, overwriting, and leaves
\* the authority registry; the registry changes in rotations only.
C7_SetKeyFrame ==
    [][/\ last'.op = "set_key"
            => /\ next_key_for' = [next_key_for EXCEPT
                                     ![last'.arg[1]] = Some(last'.arg[2])]
               /\ authorities' = authorities
       /\ authorities' # authorities => (IsCheck(last') /\ last'.rotated)]_vars

\* Validator 2 has overwritten its pending key 1, which the registry holds
\* since the last rotation, by 5: the registry still holds 1.
C7_Witness ==
    /\ last.op = "set_key" /\ last.arg = <<2, 5>>
    /\ validators = <<1, 2>> /\ authorities = <<1, 1>>
    /\ next_key_for[2] = Some(5)
    /\ current_index > 0

\* C8: right after a rotation the registry has one authority per validator,
\* each the pending key, else the converted account, else the default key.
C8_RegistryAfterRotation ==
    (IsCheck(last) /\ last.rotated)
        => /\ Len(authorities) = Len(validators)
           /\ DOMAIN authorities = 1..Len(validators)
           /\ \A i \in 1..Len(validators) :
                  authorities[i] = ExpectedKey(validators[i])

\* A rotation with a pending key for validator 2 and none for validator 1.
C8_Witness ==
    /\ IsCheck(last) /\ last.rotated
    /\ validators = <<1, 2>>
    /\ next_key_for[1] = None /\ next_key_for[2] = Some(5)
    /\ authorities = <<1, 5>>

\* C9: on_free_balance_zero(who) removes NextKeyFor[who] and nothing else;
\* a validator whose registered key was reaped, and not registered again,
\* gets the converted or default key in the rotation.
C9_ReapedKeyNotApplied ==
    [][/\ last'.op = "on_free_balance_zero"
            => /\ next_key_for' = [next_key_for EXCEPT ![last'.arg[1]] = None]
               /\ UNCHANGED <<validators, session_length, current_index,
                              current_start, forcing_new_session,
                              last_length_change, next_session_length,
                              authorities>>
       /\ (IsCheck(last') /\ last'.rotated)
            => \A i \in 1..Len(validators') :
                   validators'[i] \in purged
                       => authorities'[i] = FallbackKey(validators'[i])]_vars

\* A rotation after both validators registered a key and were reaped.
C9_Witness ==
    /\ IsCheck(last) /\ last.rotated
    /\ purged = {1, 2} /\ validators = <<1, 2>> /\ authorities = <<1, 0>>
    /\ current_index = 2

\* Block m is a final block of the running session.
IsFinalBlock(m) ==
    /\ session_length > 0
    /\ MathMod(m - last_length_change_or_zero, session_length) = 0

\* C10: at a block that is not yet checked, blocks_remaining() is the least
\* k >= 0 for which block_number + k is a final block.
C10_BlocksRemaining ==
    (order # <<>> /\ block_number = order[2] + 1)
        => \E k \in 0..MaxLen :
               /\ blocks_remaining = {Some(k)}
               /\ IsFinalBlock(block_number + k)
               /\ \A j \in 0..(k - 1) : ~IsFinalBlock(block_number + j)

\* C12: rotate_session has no step that can abort, and a check that decided
\* to rotate leaves a completed rotation: the subtraction now - CurrentStart
\* never goes below zero, the hook has been called, and every validator
\* index holds a key in the registry, the default key for a validator with
\* no pending key and no key derived from its account.
C12_RotationCompletes ==
    /\ now >= current_start
    /\ (IsCheck(last) /\ last.rotated) =>
           /\ IsSome(last.hook)
           /\ Unwrap(last.hook)[1] >= 0
           /\ DOMAIN authorities = 1..Len(validators)
           /\ \A i \in 1..Len(validators) :
                  /\ authorities[i] \in Keys \cup Accounts \cup {DefaultKey}
                  /\ (next_key_for[validators[i]] = None
                        /\ validators[i] \in Unconvertible)
                         => authorities[i] = DefaultKey

C12_Witness ==
    /\ IsCheck(last) /\ last.rotated
    /\ current_index = 2
    /\ validators = <<1, 2>>
    /\ next_key_for[2] = None
    /\ 2 \in purged
    /\ authorities[2] = DefaultKey

\* C13: CurrentIndex equals the number of rotations performed since genesis;
\* a check that rotates performs one rotation and increases CurrentIndex by
\* exactly 1, and no other step changes CurrentIndex.
C13_IndexCountsRotations ==
    /\ [](current_index = rotations)
    /\ [][IF IsCheck(last') /\ last'.rotated
          THEN /\ rotations' = rotations + 1
               /\ current_index' = current_index + 1
          ELSE /\ rotations' = rotations
               /\ current_index' = current_index]_vars

C13_Witness ==
    /\ IsCheck(last) /\ ~last.rotated /\ ~last.panic
    /\ current_index = 2
    /\ rotations = 2
    /\ next_key_for[1] = Some(5)

\* C14: every rotation calls the hook; a rotation by a check that found no
\* ForcingNewSession calls it with apply_rewards = TRUE, and the hook is
\* called with apply_rewards = FALSE only when the check consumed a
\* ForcingNewSession of FALSE.
C14_RewardsUnlessForcedWithout ==
    (IsCheck(last) /\ last.rotated) =>
        /\ IsSome(last.hook)
        /\ last.forced = None => Unwrap(last.hook)[2] = TRUE
        /\ Unwrap(last.hook)[2] = FALSE => last.forced = Some(FALSE)

C14_Witness ==
    /\ IsCheck(last) /\ last.rotated /\ last.final
    /\ last.forced = Some(FALSE)
    /\ Unwrap(last.hook)[2] = FALSE
    /\ current_index = 2

\* C15: set_key with an origin that is not a signed account is rejected and
\* leaves every persisted entity, NextKeyFor included, and the registry as
\* they were before the call.
C15_BadOriginChangesNothing ==
    [][last'.op = "set_key: bad origin" =>
           /\ last'.arg[1][1] # "Signed"
           /\ UNCHANGED <<session, authorities, block_number>>]_vars

C15_Witness ==
    /\ last.op = "set_key: bad origin"
    /\ last.arg = <<<<"Root">>, 5>>
    /\ next_key_for = [a \in Accounts |-> IF a = 1 THEN Some(1) ELSE None]

\* C16: the validator list a rotation registers is the list its hook has
\* installed with set_validators: after the rotation Validators is the
\* installed list, the registry has one entry per installed validator and
\* entry i is the key of installed validator i.
C16_RegistersInstalledValidators ==
    [][(IsCheck(last') /\ last'.rotated) =>
           LET installed == Unwrap(last'.hook)[3]
           IN  /\ validators' = installed
               /\ DOMAIN authorities' = 1..Len(installed)
               /\ \A i \in 1..Len(installed) :
                      authorities'[i] = ExpectedKey(installed[i])]_vars

\* The first rotation, whose hook replaced the genesis validators <<1, 2>>
\* by <<2>>: the registry holds the pending key of validator 2 only.
C16_Witness ==
    /\ IsCheck(last) /\ last.rotated
    /\ current_index = 1
    /\ Unwrap(last.hook)[3] = <<2>>
    /\ next_key_for[2] = Some(5)
    /\ authorities = <<5>>

\* C17: take(key) returns what get(key) returned just before the call and
\* leaves the key absent: exists(key) is then false and a second take(key)
\* returns None; every other raw key keeps its presence and its bytes.
C17_TakeReadsThenKills ==
    [][last'.op = "take" =>
           LET H == last'.arg[1]
               key == last'.arg[2]
           IN  /\ last'.ret = get(storage, H, key)
               /\ ~exists(storage', H, key)
               /\ get(storage', H, key) = None
               /\ take(storage', H, key)[1] = None
               /\ DOMAIN storage' = DOMAIN storage \ {hash(H, key)}
               /\ \A raw \in DOMAIN storage' : storage'[raw] = storage[raw]]_vars

\* A take that returned the stored 300 and left two other keys present.
C17_Witness ==
    /\ last.op = "take"
    /\ last.arg = <<"Twox", <<1>>>>
    /\ last.ret = Some(300)
    /\ Cardinality(DOMAIN storage) = 2
    /\ get(storage, "Blake2", <<1>>) = Some(1)

\* The entry of map key k as the map reads it: present or not, and the value.
MapEntry(s, k) == <<Map_exists(s, k), Map_get(s, k)>>

\* C18: after insert(k, v) the map reads get(k) = v and exists(k) = TRUE,
\* whatever was stored before; after remove(k) the entry reads as absent;
\* exists and get write nothing and agree with each other; and each of the
\* four leaves the entry of every other key k2 as it was.
C18_MapInsertGetRemove ==
    [][/\ last'.op = "Map::insert" =>
              /\ MapEntry(storage', last'.arg[1]) = <<TRUE, Some(last'.arg[2])>>
              /\ \A k2 \in MapKeys \ {last'.arg[1]} :
                     MapEntry(storage', k2) = MapEntry(storage, k2)
       /\ last'.op = "Map::remove" =>
              /\ MapEntry(storage', last'.arg[1]) = <<FALSE, None>>
              /\ \A k2 \in MapKeys \ {last'.arg[1]} :
                     MapEntry(storage', k2) = MapEntry(storage, k2)
       /\ last'.op = "Map::get" =>
              /\ storage' = storage
              /\ IsSome(last'.ret) = Map_exists(storage, last'.arg[1])
       /\ last'.op = "Map::exists" =>
              /\ storage' = storage
              /\ Unwrap(last'.ret) = IsSome(Map_get(storage, last'.arg[1]))]_vars

\* insert(1, 300) over an entry that the adapter had written as 1 with
\* Blake2 under key_for(1), next to the entry of key 2.
C18_Witness ==
    /\ last.op = "Map::insert"
    /\ last.arg = <<1, 300>>
    /\ MapEntry(storage, 1) = <<TRUE, Some(300)>>
    /\ get(storage, "Blake2", key_for(1)) = Some(300)
    /\ MapEntry(storage, 2) = <<TRUE, Some(1)>>

\* C19 as stated: ForcingNewSession is absent after every call of
\* check_rotate_session, whether or not it rotated, and it becomes present
\* by force_new_session only.
C19_ForcingAbsentAfterCheck ==
    [][/\ IsCheck(last') => forcing_new_session' = None
       /\ (forcing_new_session' # None /\ forcing_new_session' # forcing_new_session)
              => last'.op = "force_new_session"]_vars

\* C20: a check of block n that finds no ForcingNewSession, at a block that
\* is not the final block of the session, changes no persisted entity and
\* no registry entry and calls no hook; a block n at or after the anchor
\* with (n - anchor) % SessionLength # 0 is such a block.
C20_NonBoundaryCheckChangesNothing ==
    [][(IsCheck(last') /\ forcing_new_session = None) =>
           LET n == last'.arg[1]
               a == last_length_change_or_zero
           IN  /\ (session_length > 0 /\ n >= a /\ (n - a) % session_length # 0)
                      => (~last'.final /\ ~last'.panic)
               /\ ~last'.final =>
                      /\ UNCHANGED <<session, authorities>>
                      /\ last'.hook = None
                      /\ ~last'.rotated
                      /\ rotations' = rotations]_vars

\* Block 3 checked in order in the genesis session of length 2 (anchor 0),
\* one rotation after genesis, a length change pending.
C20_Witness ==
    /\ IsCheck(last) /\ last.arg = <<3>> /\ ~last.final /\ ~last.panic
    /\ last.forced = None
    /\ last.since = <<2, 2>>
    /\ session_length = 2 /\ last_length_change = None
    /\ current_index = 1
    /\ next_session_length = Some(3)

\* C21: LastLengthChange changes only in a rotation that consumed a pending
\* NextSessionLength or whose is_final_block was false; a rotation at a
\* final block with no pending length, and every step that is not a
\* rotation, leave it.
C21_AnchorWrittenOnlyOffSchedule ==
    [][/\ last_length_change' # last_length_change =>
              /\ IsCheck(last') /\ last'.rotated
              /\ IsSome(next_session_length) \/ ~last'.final
       /\ (IsCheck(last') /\ last'.rotated /\ last'.final
              /\ next_session_length = None) =>
              last_length_change' = last_length_change
       /\ ~(IsCheck(last') /\ last'.rotated) =>
              last_length_change' = last_length_change]_vars

\* The second rotation, at block 3, a final block of the session of length
\* 2 that was anchored at block 1: the anchor is still block 1.
C21_Witness ==
    /\ IsCheck(last) /\ last.rotated /\ last.final
    /\ last.arg = <<3>> /\ block_number = 3
    /\ last_length_change = Some(1)
    /\ session_length = 2
    /\ current_index = 2

\* C22: NextSessionLength is absent after every rotation; each set_length
\* overwrites the pending length, which nothing else but a rotation changes,
\* so the rotation installs the value of the last set_length since the
\* rotation before; a rotation with no pending length leaves SessionLength.
C22_PendingLengthConsumed ==
    /\ []((IsCheck(last) /\ last.rotated) => next_session_length = None)
    /\ [][/\ (IsCheck(last') /\ last'.rotated) =>
                 /\ next_session_length' = None
                 /\ (IsSome(next_session_length)
                       => session_length' = Unwrap(next_session_length))
                 /\ (next_session_length = None
                       => session_length' = session_length)
          /\ (last'.op = "set_length"
                => next_session_length' = Some(last'.arg[1]))
          /\ (next_session_length' # next_session_length
                => (last'.op = "set_length"
                    \/ (IsCheck(last') /\ last'.rotated)))]_vars

\* A forced rotation before the boundary of the genesis session has
\* installed the pending length 1.
C22_Witness ==
    /\ IsCheck(last) /\ last.rotated /\ ~last.final
    /\ IsSome(last.forced)
    /\ session_length = 1 /\ next_session_length = None
    /\ current_index = 1

\* C23 as stated: force_new_session(f) leaves ForcingNewSession = Some(f)
\* and nothing else changed, whatever was pending, so that repeating it adds
\* nothing; and the check that follows any number of such calls performs
\* exactly one rotation, with the flag of the last call as apply_rewards.
C23_ForceIdempotent ==
    [][/\ (last'.op = "force_new_session" =>
              /\ forcing_new_session' = Some(last'.arg[1])
              /\ UNCHANGED <<validators, session_length, current_index,
                             current_start, last_length_change, next_key_for,
                             next_session_length, authorities, block_number>>)
       /\ ((IsCheck(last') /\ IsSome(forcing_new_session)) =>
              /\ last'.rotated
              /\ rotations' = rotations + 1
              /\ IsSome(last'.hook)
              /\ Unwrap(last'.hook)[2] = Unwrap(forcing_new_session))]_vars

\* C24: a rotation leaves NextKeyFor as it is, only set_key and
\* on_free_balance_zero change it, and every rotation registers, at the
\* index of each validator that has a pending key, that pending key.
C24_PendingKeysSurviveRotation ==
    [][/\ (IsCheck(last') => next_key_for' = next_key_for)
       /\ (next_key_for' # next_key_for =>
              last'.op \in {"set_key", "on_free_balance_zero"})
       /\ ((IsCheck(last') /\ last'.rotated) =>
              \A i \in 1..Len(validators') :
                  IsSome(next_key_for[validators'[i]]) =>
                      /\ next_key_for'[validators'[i]] = next_key_for[validators'[i]]
                      /\ authorities'[i] = Unwrap(next_key_for[validators'[i]]))]_vars

\* The second rotation: the key 5 of validator 2, in the registry since the
\* first rotation at the latest, is registered again and is still pending.
C24_Witness ==
    /\ IsCheck(last) /\ last.rotated
    /\ rotations = 2
    /\ validators = <<1, 2>>
    /\ next_key_for[2] = Some(5)
    /\ 2 \notin purged
    /\ authorities = <<1, 5>>

\* C25: last_length_change() never exceeds the current block number, so a
\* check that is called with the number of the current block, the blocks
\* only advancing, never subtracts below zero: it panics only on a
\* SessionLength of zero, and so does blocks_remaining.
C25_NoUnderflowInOrder ==
    /\ [](last_length_change_or_zero <= block_number)
    /\ [](session_length > 0 => <<>> \notin blocks_remaining)
    /\ [][(IsCheck(last') /\ last'.arg[1] = block_number) =>
              /\ last'.arg[1] >= last_length_change_or_zero
              /\ last'.panic => session_length = 0]_vars

\* Block 4 checked as the current block, after a rotation off the boundary
\* at block 3 that moved the anchor to 3.
C25_Witness ==
    /\ IsCheck(last) /\ ~last.panic
    /\ last.arg = <<4>> /\ block_number = 4
    /\ last.since = <<3, 3>>
    /\ last_length_change = Some(3)
    /\ blocks_remaining = {<<0>>}
====
